---------------------------- MODULE Spec2Model ----------------------------
(***************************************************************************)
(* A model of preact-sonner: the notification store (state.ts), its        *)
(* publish/subscribe channel, the promise adapter, and the Toaster / Toast *)
(* components (sonner.tsx) that mirror the store.                          *)
(*                                                                         *)
(* JavaScript values are encoded as follows.                               *)
(*   identifiers   <<"number", n>>  the number n                           *)
(*                 <<"string", k>>  a string of length k ("" when k = 0)   *)
(*                 <<"undefined", 0>>                                      *)
(*   objects       TLA+ records; a property that is absent from the object *)
(*                 is absent from the record's DOMAIN                      *)
(*   undefined     the string "undefined" as a property value              *)
(***************************************************************************)
EXTENDS Integers, Sequences, FiniteSets, TLC

VARIABLES
    toastsCounter,  \* state.ts: let toastsCounter
    subscribers,    \* state.ts: const subscribers (a Set, in insertion order)
    toasts,         \* state.ts: const toasts
    call,           \* the last call of the public interface: its name, its
                    \* argument, the subscribers when it began, the identifier
                    \* it resolved, whether a stored record had it already, and
                    \* what it returned
    trace,          \* what that call did, in order: deliveries, then its return
    history,        \* the array a caller got from getHistory(), and whether
                    \* it is the store's own array
    mounted,        \* sonner.tsx: whether the Toaster is mounted
    state,          \* Toaster: this.state.toasts, what the last render shows
    nextState,      \* Toaster: the state that setState has queued for the
                    \* next render, if any
    components,     \* the mounted Toast components, by key (toast.id)
    heights,        \* Toaster: #heights, front first
    timers,         \* the pending setTimeout callbacks, oldest first
    promises,       \* the promise() calls in flight
    now,            \* Date.now(), in milliseconds
    toaster         \* Toaster: #expanded and #interacting, and whether the
                    \* document is hidden

toasterVars == <<mounted, toaster, state, components, heights, timers, now>>

vars ==
    <<toastsCounter, subscribers, toasts, call, trace, history,
      mounted, toaster, state, nextState, components, heights, timers, promises,
      now>>

----------------------------------------------------------------------------
(* Bounds of the model *)

\* the store holds at most this many records
MaxToasts == 2

\* identifiers are generated while the counter is at most this
MaxCounter == 2

\* a click is taken while at most this many timers are pending
MaxTimers == 2

\* promise is called at most this many times
MaxPromises == 1

\* the height tracker holds at most this many entries
MaxHeights == 3

\* time passes for at most this many milliseconds
MaxTime == 1500
MaxSwipeTime == 500
MaxStickyTime == 400

----------------------------------------------------------------------------
(* JavaScript values *)

Num(n) == <<"number", n>>
Str(k) == <<"string", k>>
NoId == <<"undefined", 0>>
undefined == "undefined"

\* typeof id === "number" || (typeof id === "string" && id.length > 0)
IsValidId(id) == id[1] = "number" \/ (id[1] = "string" /\ id[2] > 0)

\* JavaScript truthiness of an identifier: 0, "" and undefined are falsy
Truthy(id) == ~(id[2] = 0)

Has(obj, key) == key \in DOMAIN obj

\* obj.key, undefined when the property is absent
Get(obj, key) == IF Has(obj, key) THEN obj[key] ELSE undefined

\* { ...a, ...b }
Spread(a, b) ==
    [key \in (DOMAIN a) \cup (DOMAIN b) |-> IF key \in DOMAIN b THEN b[key] ELSE a[key]]

\* const { message, ...rest } = data
Rest(data, keys) == [key \in (DOMAIN data) \ keys |-> data[key]]

\* {}
NoData == [key \in {} |-> undefined]

\* the objects that hold at most the property key, with a value of values
Optional(key, values) == {NoData} \cup {[k \in {key} |-> v] : v \in values}

----------------------------------------------------------------------------
(* The subscriber set.  A JavaScript Set iterates its entries in insertion *)
(* order over the live list: an entry deleted during the iteration leaves  *)
(* a hole the iterator skips, and an entry added is appended and visited.  *)

Empty == "<empty>"

SetHas(set, fn) == \E i \in 1..Len(set) : set[i] = fn

SetAdd(set, fn) == IF SetHas(set, fn) THEN set ELSE Append(set, fn)

SetDelete(set, fn) == [i \in 1..Len(set) |-> IF set[i] = fn THEN Empty ELSE set[i]]

\* the holes of a Set are not observable once no iterator is running
RECURSIVE Compact(_)
Compact(set) ==
    IF set = <<>> THEN <<>>
    ELSE IF Head(set) = Empty THEN Compact(Tail(set))
    ELSE <<Head(set)>> \o Compact(Tail(set))

\* The callbacks that may be subscribed.  "observer" only records what it
\* receives; "adder" subscribes "observer" from within its callback, and
\* "remover" unsubscribes it.
Callbacks == {"observer", "adder", "remover"}

Delivery(fn, ev) == [kind |-> "deliver", to |-> fn, ev |-> ev]

\* Toaster.#toastStateSubscriber.  It reads this.state, which is what the last
\* render committed, and setState queues the array it builds from it.
toastStateSubscriber(toast) ==
    IF Has(toast, "dismiss") /\ toast.dismiss
    THEN [i \in 1..Len(state) |->
            IF state[i].id = toast.id THEN Spread(state[i], [delete |-> TRUE]) ELSE state[i]]
    ELSE IF \E i \in 1..Len(state) : state[i].id = toast.id
    THEN [i \in 1..Len(state) |-> IF state[i].id = toast.id THEN toast ELSE state[i]]
    ELSE <<toast>> \o state

\* this.setState({ toasts })
setState(list) == [pending |-> TRUE, toasts |-> list]

\* subscriber(data): the callback fn runs on the event ev
Invoke(w, fn, ev) ==
    LET logged == [w EXCEPT !.trace = Append(@, Delivery(fn, ev))] IN
    CASE fn = "adder"   -> [logged EXCEPT !.subs = SetAdd(@, "observer")]
      [] fn = "remover" -> [logged EXCEPT !.subs = SetDelete(@, "observer")]
      [] fn = "toaster" -> [logged EXCEPT !.next = setState(toastStateSubscriber(ev))]
      [] OTHER          -> logged

\* for (const subscriber of subscribers) subscriber(data), from entry i on
RECURSIVE ForOfSubscribers(_, _, _)
ForOfSubscribers(w, i, ev) ==
    IF i > Len(w.subs) THEN w
    ELSE IF w.subs[i] = Empty THEN ForOfSubscribers(w, i + 1, ev)
    ELSE ForOfSubscribers(Invoke(w, w.subs[i], ev), i + 1, ev)

\* a publish that walks a copy of the set taken when it starts
RECURSIVE ForOfCopy(_, _, _)
ForOfCopy(w, copy, ev) ==
    IF copy = <<>> THEN w
    ELSE ForOfCopy(Invoke(w, Head(copy), ev), Tail(copy), ev)

publishToSnapshot(w, data) == ForOfCopy(w, Compact(w.subs), data)

publish(w, data) == ForOfSubscribers(w, 1, data)

\* addToast: publish(data); toasts.push(data)
addToast(w, data) == [publish(w, data) EXCEPT !.toasts = Append(@, data)]

----------------------------------------------------------------------------
(* create *)

\* the identifier create resolves, and whether it drew it from the counter
ResolvedId(data) ==
    IF Has(data, "id") /\ IsValidId(data.id) THEN data.id ELSE Num(toastsCounter)

DrawsCounter(data) == ~(Has(data, "id") /\ IsValidId(data.id))

\* the record create publishes for a stored toast that matches
Published(toast, data, id) ==
    Spread(Spread(toast, data), [id |-> id, title |-> Get(data, "message")])

\* a merge that forgets the stored record
StoredWithoutOld(toast, data, id) ==
    Spread(data,
           [id |-> id,
            dismissible |-> IF Has(data, "dismissible") THEN data.dismissible ELSE TRUE,
            title |-> Get(data, "message")])

\* the record create stores in its place
Stored(toast, data, id) ==
    Spread(Spread(toast, data),
           [id |-> id,
            dismissible |-> IF Has(data, "dismissible") THEN data.dismissible ELSE TRUE,
            title |-> Get(data, "message")])

\* for (let i = 0; i < toasts.length; i++) if (toasts[i].id === id) { ... }
RECURSIVE UpdateFrom(_, _, _, _)
UpdateFrom(w, i, data, id) ==
    IF i > Len(w.toasts) THEN w
    ELSE IF w.toasts[i].id = id
    THEN UpdateFrom([publish(w, Published(w.toasts[i], data, id))
                        EXCEPT !.toasts[i] = Stored(w.toasts[i], data, id)],
                    i + 1, data, id)
    ELSE UpdateFrom(w, i + 1, data, id)

AlreadyExists(list, id) == \E i \in 1..Len(list) : list[i].id = id

\* the new record: { title: message, ...rest, dismissible, id }
NewToast(data, id) ==
    Spread(Spread([title |-> Get(data, "message")], Rest(data, {"message"})),
           [dismissible |-> IF Has(data, "dismissible") THEN data.dismissible ELSE TRUE,
            id |-> id])

\* a create that never looks for the identifier
createInAppends(w, data, id) == addToast(w, NewToast(data, id))

createIn(w, data, id) ==
    IF AlreadyExists(w.toasts, id) THEN UpdateFrom(w, 1, data, id)
    ELSE addToast(w, NewToast(data, id))

\* the world a call starts in
World == [subs |-> subscribers, toasts |-> toasts, trace |-> <<>>, next |-> nextState]

\* a call that returns before it publishes
ReturnFirst(w, value) == <<[kind |-> "return", value |-> value]>> \o w.trace

Return(w, value) == Append(w.trace, [kind |-> "return", value |-> value])

Called(op, arg, id, value) ==
    [op |-> op, arg |-> arg, subs |-> subscribers, id |-> id,
     existed |-> AlreadyExists(toasts, id), ret |-> value]

\* what a call leaves behind
Finish(w, op, arg, id, value) ==
    /\ subscribers' = Compact(w.subs)
    /\ toasts' = w.toasts
    /\ trace' = Return(w, value)
    /\ call' = Called(op, arg, id, value)
    /\ nextState' = w.next

Fits(data, id) == AlreadyExists(toasts, id) \/ Len(toasts) < MaxToasts

create(data) ==
    LET id == ResolvedId(data) IN
    /\ Fits(data, id)
    /\ DrawsCounter(data) => toastsCounter <= MaxCounter
    /\ toastsCounter' = IF DrawsCounter(data) THEN toastsCounter + 1 ELSE toastsCounter
    /\ Finish(createIn(World, data, id), "create", data, id, id)
    /\ UNCHANGED <<history, toasterVars, promises>>

----------------------------------------------------------------------------
(* dismiss, show, the convenience constructors, custom, getHistory *)

DismissSignal(id) == [id |-> id, dismiss |-> TRUE]

\* for (const toast of toasts) for (const subscriber of subscribers) ...
RECURSIVE DismissEach(_, _)
DismissEach(w, i) ==
    IF i > Len(w.toasts) THEN w
    ELSE DismissEach(publish(w, DismissSignal(w.toasts[i].id)), i + 1)

dismissIn(w, id) ==
    IF ~Truthy(id) THEN DismissEach(w, 1) ELSE publish(w, DismissSignal(id))

dismiss(id) ==
    /\ Finish(dismissIn(World, id), "dismiss", [id |-> id], id, id)
    /\ UNCHANGED <<toastsCounter, history, toasterVars, promises>>

\* data?.id || toastsCounter++
IdOrCounter(data) ==
    IF Has(data, "id") /\ Truthy(data.id) THEN data.id ELSE Num(toastsCounter)

TakesCounter(data) == ~(Has(data, "id") /\ Truthy(data.id))

\* show: addToast({ title: message, ...data, id })
show(message, data) ==
    LET id == IdOrCounter(data) IN
    /\ Len(toasts) < MaxToasts
    /\ TakesCounter(data) => toastsCounter <= MaxCounter
    /\ toastsCounter' = IF TakesCounter(data) THEN toastsCounter + 1 ELSE toastsCounter
    /\ Finish(addToast(World, Spread(Spread([title |-> message], data), [id |-> id])),
              "show", Spread(data, [message |-> message]), id, id)
    /\ UNCHANGED <<history, toasterVars, promises>>

\* message, error, success, info, warning, loading:
\* create({ ...data, message, type }), and message() sets no type
Constructors == {"message", "loading"}

ConstructorData(name, message, data) ==
    IF name = "message" THEN Spread(data, [message |-> message])
    ELSE Spread(data, [message |-> message, type |-> name])

constructor(name, message, data) ==
    LET d  == ConstructorData(name, message, data)
        id == ResolvedId(d)
    IN  /\ Fits(d, id)
        /\ DrawsCounter(d) => toastsCounter <= MaxCounter
        /\ toastsCounter' = IF DrawsCounter(d) THEN toastsCounter + 1 ELSE toastsCounter
        /\ Finish(createIn(World, d, id), name, d, id, id)
        /\ UNCHANGED <<history, toasterVars, promises>>

\* custom: const id = data?.id || toastsCounter++
\*         create({ jsx: jsx(id), id, ...data }); return id
\* jsx(id) is a payload that embeds the identifier it was given
CustomData(data, id) == Spread([jsx |-> id, id |-> id], data)

custom(data) ==
    LET id      == IdOrCounter(data)
        counter == IF TakesCounter(data) THEN toastsCounter + 1 ELSE toastsCounter
        d       == CustomData(data, id)
        \* create's own resolution, which draws the counter again when d.id is ""
        inner   == IF IsValidId(d.id) THEN d.id ELSE Num(counter)
    IN  /\ AlreadyExists(toasts, inner) \/ Len(toasts) < MaxToasts
        /\ counter <= MaxCounter + 1
        /\ ~IsValidId(d.id) => counter <= MaxCounter
        /\ toastsCounter' = IF IsValidId(d.id) THEN counter ELSE counter + 1
        /\ Finish(createIn(World, d, inner), "custom", d, inner, id)
        /\ UNCHANGED <<history, toasterVars, promises>>

\* a getHistory that hands out the store's own array
getHistoryAlias == [alias |-> TRUE, list |-> toasts]

\* getHistory: toasts.slice(), an array of its own
getHistory == [alias |-> FALSE, list |-> toasts]

\* The caller keeps the array it was given; the model keeps which array it is
\* (the store's own, or another) and its length.
GetHistory ==
    /\ history' = [alias |-> getHistory.alias, length |-> Len(getHistory.list)]
    /\ call' = Called("getHistory", NoData, NoId, NoId)
    /\ trace' = <<>>
    /\ UNCHANGED <<toastsCounter, subscribers, toasts, nextState, toasterVars, promises>>

\* the caller changes the array it was given: array.pop()
MutateHistory ==
    /\ history.length > 0
    /\ history' = [history EXCEPT !.length = @ - 1]
    /\ toasts' = IF history.alias THEN SubSeq(toasts, 1, Len(toasts) - 1) ELSE toasts
    /\ call' = Called("mutateHistory", NoData, NoId, NoId)
    /\ trace' = <<>>
    /\ UNCHANGED <<toastsCounter, subscribers, nextState, toasterVars, promises>>

\* subscribe(subscriber): subscribers.add(subscriber)
subscribe(fn) ==
    /\ subscribers' = SetAdd(subscribers, fn)
    /\ call' = Called("subscribe", NoData, NoId, NoId)
    /\ trace' = <<>>
    /\ UNCHANGED <<toastsCounter, toasts, history, nextState, toasterVars, promises>>

\* the handle subscribe returned: () => subscribers.delete(subscriber)
unsubscribe(fn) ==
    /\ SetHas(subscribers, fn)
    /\ subscribers' = Compact(SetDelete(subscribers, fn))
    /\ call' = Called("unsubscribe", NoData, NoId, NoId)
    /\ trace' = <<>>
    /\ UNCHANGED <<toastsCounter, toasts, history, nextState, toasterVars, promises>>

----------------------------------------------------------------------------
(* promise.  The adapter runs in four turns: the call itself, and the then, *)
(* catch and finally handlers it chains on the operation.  A handler whose  *)
(* turn does not come (then after a rejection, catch after a then that did  *)
(* not throw) is skipped.  A message option is a string, or "throws" for a  *)
(* function that throws; the finally option is "runs" or "throws".          *)

\* what the observer was handed in one turn
Observed(w) ==
    LET given == SelectSeq(w.trace, LAMBDA e : e.kind = "deliver" /\ e.to = "observer")
    IN  [i \in 1..Len(given) |-> given[i].ev]

\* create({ ...data, promise, type: "loading", message: data.loading, description })
LoadingData(data) ==
    Spread(data, [promise |-> "promise", type |-> "loading",
                  message |-> Get(data, "loading"), description |-> undefined])

\* promise(promise, data), up to the return of the handle
promise(data, outcome) ==
    LET loads   == Has(data, "loading")
        payload == LoadingData(data)
        id      == IF loads THEN ResolvedId(payload) ELSE NoId
        draws   == loads /\ DrawsCounter(payload)
        w       == IF loads THEN createIn(World, payload, id) ELSE World
    IN  /\ Len(promises) < MaxPromises
        /\ loads => Fits(payload, id)
        /\ draws => toastsCounter <= MaxCounter
        /\ toastsCounter' = IF draws THEN toastsCounter + 1 ELSE toastsCounter
        /\ promises' = Append(promises,
                [data          |-> data,
                 outcome       |-> outcome,
                 id            |-> id,
                 \* let shouldDismiss = id !== undefined
                 shouldDismiss |-> loads,
                 phase         |-> IF outcome[1] = "resolve" THEN "then" ELSE "catch",
                 thrown        |-> IF outcome[1] = "resolve" THEN "nothing" ELSE "operation",
                 result        |-> <<>>,
                 watched       |-> SetHas(subscribers, "observer"),
                 observed      |-> Observed(w),
                 log           |-> IF loads THEN <<"create">> ELSE <<>>])
        /\ Finish(w, "promise", data, id, id)
        /\ UNCHANGED <<history, toasterVars>>

\* the branch the then handler takes on the response
ThenType(p) ==
    CASE p.outcome[2] = "element"   -> "default"
      [] p.outcome[2] = "httpError" -> "error"
      [] Has(p.data, "success")     -> "success"
      [] OTHER                      -> "none"

ThenMessage(p) ==
    CASE p.outcome[2] = "element"   -> "element"
      [] p.outcome[2] = "httpError" -> Get(p.data, "error")
      [] OTHER                      -> Get(p.data, "success")

\* create({ id, type, message, description })
ReplacementData(p, type, message) ==
    [id |-> p.id, type |-> type, message |-> message, description |-> undefined]

\* one handler: it may clear shouldDismiss, then its message callback throws
\* or it creates the replacement
Handler(k, name, result, type, message, onThrow, onReturn) ==
    LET p       == promises[k]
        acts    == type # "none"
        throws  == acts /\ message = "throws"
        creates == acts /\ ~throws
        payload == ReplacementData(p, type, message)
        id      == ResolvedId(payload)
        draws   == creates /\ DrawsCounter(payload)
        w       == IF creates THEN createIn(World, payload, id) ELSE World
    IN  /\ creates => Fits(payload, id)
        /\ draws => toastsCounter <= MaxCounter
        /\ toastsCounter' = IF draws THEN toastsCounter + 1 ELSE toastsCounter
        /\ promises' = [promises EXCEPT ![k] =
                [p EXCEPT
                    !.result        = result,
                    !.shouldDismiss = IF acts THEN FALSE ELSE @,
                    !.thrown        = IF throws THEN "callback" ELSE "nothing",
                    !.phase         = IF throws THEN onThrow ELSE onReturn,
                    !.observed      = @ \o Observed(w),
                    !.log           = IF creates THEN Append(@, "create") ELSE @]]
        /\ Finish(w, name, [id |-> p.id], p.id, NoId)
        /\ UNCHANGED <<history, toasterVars>>

\* .then(async (response) => { ... })
PromiseThen(k) ==
    /\ promises[k].phase = "then"
    /\ Handler(k, "then", <<"resolve", promises[k].outcome[2]>>,
               ThenType(promises[k]), ThenMessage(promises[k]), "catch", "finally")

\* .catch(async (error) => { ... }); a throw in it rejects the chain
PromiseCatch(k) ==
    /\ promises[k].phase = "catch"
    /\ Handler(k, "catch", <<"reject", promises[k].thrown>>,
               IF Has(promises[k].data, "error") THEN "error" ELSE "none",
               Get(promises[k].data, "error"), "finally", "finally")

\* a finally handler that calls data.finally before it dismisses
FinallyStepsFirst(p) ==
    (IF Has(p.data, "finally") THEN <<"finally">> ELSE <<>>)
        \o (IF p.shouldDismiss THEN <<"dismiss">> ELSE <<>>)

\* what the finally handler does, in order: dismiss(id), then data.finally?.()
FinallySteps(p) ==
    (IF p.shouldDismiss THEN <<"dismiss">> ELSE <<>>)
        \o (IF Has(p.data, "finally") THEN <<"finally">> ELSE <<>>)

\* .finally(() => { if (shouldDismiss) { dismiss(id); id = undefined }; data.finally?.() })
PromiseFinally(k) ==
    LET p == promises[k]
        w == IF p.shouldDismiss THEN dismissIn(World, p.id) ELSE World
    IN  /\ p.phase = "finally"
        /\ promises' = [promises EXCEPT ![k] =
                [p EXCEPT
                    !.id       = IF p.shouldDismiss THEN NoId ELSE @,
                    !.thrown   = IF Get(p.data, "finally") = "throws" THEN "finally" ELSE @,
                    !.phase    = "done",
                    !.observed = @ \o Observed(w),
                    !.log      = @ \o FinallySteps(p)]]
        /\ Finish(w, "finally", [id |-> p.id], p.id, NoId)
        /\ UNCHANGED <<toastsCounter, history, toasterVars>>

\* unwrap, once the chain has settled: originalPromise.then(() =>
\*   result[0] === "reject" ? reject(result[1]) : resolve(result[1])).catch(reject)
\* The chain is rejected when the catch handler or data.finally threw.
unwrap(p) ==
    IF p.thrown # "nothing" THEN <<"reject", p.thrown>> ELSE p.result

----------------------------------------------------------------------------
(* The Toaster and its Toast components (sonner.tsx).  preact renders a    *)
(* component some time after setState: until then this.state is what the   *)
(* last render committed.  A Toast is keyed by toast.id, so a render mounts *)
(* a Toast for each identifier that is new in the state, unmounts the Toast *)
(* of each identifier that is gone, and hands the others their new record. *)

\* toast.duration === Infinity
Infinity == 1000000

\* const TOAST_LIFETIME = 4000; const TIME_BEFORE_UNMOUNT = 200
TOAST_LIFETIME == 4000
TIME_BEFORE_UNMOUNT == 200
SWIPE_THRESHOLD == 20

\* Date.now() when the page loads: a large positive number of milliseconds
StartTime == 100000

\* li.getBoundingClientRect().height, which the browser measures
MeasuredHeights == {30, 40}

\* const GAP = 14
GAP == 14

\* a tracker that puts a new entry at the back
HeightsAddBack(list, height) == Append(list, height)

\* Heights.add: this.#heights = [height, ...this.#heights]
HeightsAdd(list, height) == <<height>> \o list

\* Heights.remove
HeightsRemove(list, id) == SelectSeq(list, LAMBDA h : h.toastId # id)

\* Heights.offset: the heights and gaps in front of the first entry of id
RECURSIVE HeightsOffset(_, _, _)
HeightsOffset(list, id, gap) ==
    IF list = <<>> \/ Head(list).toastId = id THEN 0
    ELSE Head(list).height + gap + HeightsOffset(Tail(list), id, gap)

\* Toast.#updateOffset:
\* (this.#removed && this.#offsetBeforeRemove) ? this.#offsetBeforeRemove : heights.offset(...)
\* The field is <<>> while undefined and <<offset>> once set; 0 is falsy.
updateOffset(component, list) ==
    IF /\ component.removed
       /\ component.offsetBeforeRemove # <<>>
       /\ component.offsetBeforeRemove[1] # 0
    THEN component.offsetBeforeRemove[1]
    ELSE HeightsOffset(list, component.toast.id, GAP)

\* heights.add(height) and heights.remove(id), called on the tracker itself
HeightsAddCall(id, height) ==
    /\ Len(heights) < MaxHeights
    /\ heights' = HeightsAdd(heights, [toastId |-> id, height |-> height])
    /\ call' = Called("heights.add", [id |-> id, height |-> height], id, NoId)
    /\ trace' = <<>>
    /\ UNCHANGED <<toastsCounter, subscribers, toasts, history, mounted, toaster, state,
                   nextState, components, timers, promises, now>>

HeightsRemoveCall(id) ==
    /\ heights' = HeightsRemove(heights, id)
    /\ call' = Called("heights.remove", [id |-> id], id, NoId)
    /\ trace' = <<>>
    /\ UNCHANGED <<toastsCounter, subscribers, toasts, history, mounted, toaster, state,
                   nextState, components, timers, promises, now>>

\* setTimeout(Toast.#autoclose, this.#remainingTime, this): a delay that is not
\* a finite 32-bit number is taken as 0.  props is the props of the Toast once
\* it is unmounted, which the callback still reads.
Autoclose(id, delay) ==
    [kind |-> "autoclose", id |-> id, unmounted |-> FALSE, props |-> NoData,
     due |-> now + (IF delay = Infinity THEN 0 ELSE delay)]

\* setTimeout(removeToast, TIME_BEFORE_UNMOUNT, toast)
RemoveToast(toast) ==
    [kind |-> "removeToast", toast |-> toast, due |-> now + TIME_BEFORE_UNMOUNT]

\* the timer has waited for its delay, and so has every timer that is due
\* before it: the timers run in the order of their due times, and those due
\* at the same time in the order they were set
Due(i) ==
    /\ timers[i].due <= now
    /\ \A j \in 1..Len(timers) :
            IF j < i THEN timers[j].due < timers[i].due
            ELSE timers[j].due >= timers[i].due

\* Toaster.componentDidMount: ToastState.subscribe(this.#toastStateSubscriber)
ToasterMount ==
    /\ ~mounted
    /\ mounted' = TRUE
    /\ subscribers' = SetAdd(subscribers, "toaster")
    /\ call' = Called("mount", NoData, NoId, NoId)
    /\ trace' = <<>>
    /\ UNCHANGED <<toastsCounter, toasts, history, toaster, state, nextState,
                   components, heights, timers, promises, now>>

\* the fields of a new Toast, and componentDidMount:
\* sticky = toast.duration === Infinity || toast.type === "loading"
Sticky(toast) ==
    \/ Has(toast, "duration") /\ toast.duration = Infinity
    \/ Has(toast, "type") /\ toast.type = "loading"

\* The fields of a Toast as its constructor leaves them.  An optional number
\* is <<>> while undefined and <<n>> once set.  onDismiss and onAutoClose count
\* the calls of the callbacks of the toast.  swipeAmount is the --swipe-amount
\* of the element's style; gesture is the pointer itself, <<>> while it is up
\* and <<clientY at pointerdown, latest clientY>> while it is down.
FreshComponent(toast) ==
    [toast       |-> toast,
     disabled    |-> Has(toast, "type") /\ toast.type = "loading",
     dismissible |-> IF Has(toast, "dismissible") THEN toast.dismissible ELSE TRUE,
     removed     |-> FALSE,
     swipedOut   |-> FALSE,
     offsetBeforeRemove |-> <<>>,
     closeTimerStartTime |-> <<>>,
     remainingTime |-> <<>>,
     dragStartTime |-> <<>>,
     pointerStart  |-> <<>>,
     swipeAmount   |-> 0,
     gesture       |-> <<>>,
     onDismiss     |-> 0,
     onAutoClose   |-> 0,
     timeoutId   |-> FALSE]

\* toast.duration ?? duration ?? TOAST_LIFETIME, the Toaster's duration unset
Lifetime(toast) == IF Has(toast, "duration") THEN toast.duration ELSE TOAST_LIFETIME

\* Toast.#startAutocloseTimer: the fields it leaves, and the timer it sets
startAutocloseTimer(c) ==
    IF c.timeoutId THEN c
    ELSE [c EXCEPT
            !.closeTimerStartTime = <<now>>,
            !.remainingTime = IF @ = <<>> THEN <<Lifetime(c.toast)>> ELSE @,
            !.timeoutId = TRUE]

StartedTimers(c) ==
    IF c.timeoutId THEN <<>>
    ELSE <<Autoclose(c.toast.id, startAutocloseTimer(c).remainingTime[1])>>

Max(a, b) == IF a >= b THEN a ELSE b

\* if (this.#closeTimerStartTime && this.#remainingTime && this.#timeoutId)
Pauses(c) ==
    /\ c.closeTimerStartTime # <<>> /\ c.closeTimerStartTime[1] # 0
    /\ c.remainingTime # <<>> /\ c.remainingTime[1] # 0
    /\ c.timeoutId

\* Toast.#pauseAutocloseTimer: the fields it leaves, and the timers it leaves
pauseAutocloseTimer(c) ==
    IF Pauses(c)
    THEN [c EXCEPT
            !.remainingTime =
                IF @[1] = Infinity THEN @
                ELSE <<Max(0, @[1] - (now - c.closeTimerStartTime[1]))>>,
            !.timeoutId = FALSE]
    ELSE c

\* clearTimeout(this.#timeoutId): the pending timer of the mounted Toast, if any
ClearTimeout(list, id) ==
    SelectSeq(list, LAMBDA t : ~(t.kind = "autoclose" /\ t.id = id /\ ~t.unmounted))

PausedTimers(c) == IF Pauses(c) THEN ClearTimeout(timers, c.toast.id) ELSE timers

\* a new Toast after componentDidMount: if (!sticky) this.#startAutocloseTimer()
NewComponent(toast) ==
    IF Sticky(toast) THEN FreshComponent(toast)
    ELSE startAutocloseTimer(FreshComponent(toast))

IdsOf(list) == {list[i].id : i \in 1..Len(list)}

RecordOf(list, id) == list[CHOOSE i \in 1..Len(list) : list[i].id = id]

\* the render preact runs after setState
Render ==
    /\ nextState.pending
    /\ LET new      == nextState.toasts
           entering == IdsOf(new) \ DOMAIN components
           leaving  == (DOMAIN components) \ IdsOf(new)
       IN  \E measure \in [entering -> MeasuredHeights] :
            /\ state' = new
            /\ nextState' = [pending |-> FALSE, toasts |-> new]
            /\ components' =
                    [id \in IdsOf(new) |->
                        IF id \in entering THEN NewComponent(RecordOf(new, id))
                        ELSE [components[id] EXCEPT !.toast = RecordOf(new, id)]]
            \* componentWillUnmount: heights.remove(toast.id); componentDidMount:
            \* heights.add({ toastId, height }).  One render changes one Toast.
            /\ heights' =
                    LET kept == SelectSeq(heights, LAMBDA h : h.toastId \notin leaving)
                        added == [i \in 1..Len(new) |-> new[i].id]
                        fresh == SelectSeq(added, LAMBDA id : id \in entering)
                    IN  [i \in 1..Len(fresh) |->
                            [toastId |-> fresh[i], height |-> measure[fresh[i]]]] \o kept
            \* componentDidMount arms the timer; an unmount aborts the listeners
            \* and leaves the timer of the Toast pending
            /\ timers' =
                    [i \in 1..Len(timers) |->
                        IF timers[i].kind = "autoclose" /\ timers[i].id \in leaving
                        THEN [timers[i] EXCEPT !.unmounted = TRUE,
                                               !.props = components[timers[i].id].toast]
                        ELSE timers[i]]
                    \o LET added == [i \in 1..Len(new) |-> new[i]]
                           armed == SelectSeq(added,
                                        LAMBDA t : t.id \in entering /\ ~Sticky(t))
                       IN  [i \in 1..Len(armed) |->
                                Autoclose(armed[i].id, Lifetime(armed[i]))]
    /\ call' = Called("render", NoData, NoId, NoId)
    /\ trace' = <<>>
    /\ UNCHANGED <<toastsCounter, subscribers, toasts, history, mounted, toaster, promises, now>>

Without(list, i) == SubSeq(list, 1, i - 1) \o SubSeq(list, i + 1, Len(list))

\* toast.onDismiss?.(toast), toast.onAutoClose?.(toast), toast.cancel.onClick?.()
Calls(toast, name) ==
    IF Has(toast, name) THEN <<[kind |-> name, id |-> toast.id]>> ELSE <<>>

\* Toast.#deleteToast: this.#removed = true;
\* this.#offsetBeforeRemove = this.#updateOffset(); heights.remove(toast.id)
Deleted(c) ==
    [c EXCEPT
        !.removed = TRUE,
        !.offsetBeforeRemove = <<updateOffset([c EXCEPT !.removed = TRUE], heights)>>]

deleteToast(id, c) ==
    /\ components' = [components EXCEPT ![id] = Deleted(c)]
    /\ heights' = HeightsRemove(heights, id)

\* a click on the close button of a mounted Toast:
\* if (dataset.closeButton && this.#disabled === false && this.#dismissible)
\*     { this.#deleteToast(); toast.onDismiss?.(toast) }
ClickClose(id) ==
    /\ id \in DOMAIN components
    /\ ~components[id].disabled
    /\ components[id].dismissible
    /\ Len(timers) < MaxTimers
    /\ LET c == components[id] IN
        /\ deleteToast(id, [c EXCEPT !.onDismiss = @ + Len(Calls(c.toast, "onDismiss"))])
        /\ timers' = Append(timers, RemoveToast(c.toast))
        /\ trace' = Calls(c.toast, "onDismiss")
    /\ call' = Called("click", [id |-> id], NoId, NoId)
    /\ UNCHANGED <<toastsCounter, subscribers, toasts, history, mounted, toaster, state,
                   nextState, promises, now>>

\* a click on the cancel button:
\* else if (dataset.cancel && isAction(toast.cancel) && this.#dismissible)
\*     { toast.cancel.onClick?.(event); this.#deleteToast() }
ClickCancel(id) ==
    /\ id \in DOMAIN components
    /\ Has(components[id].toast, "cancel")
    /\ components[id].dismissible
    /\ Len(timers) < MaxTimers
    /\ LET c == components[id] IN
        /\ deleteToast(id, c)
        /\ timers' = Append(timers, RemoveToast(c.toast))
        /\ trace' = <<[kind |-> "cancel.onClick", id |-> id]>>
    /\ call' = Called("cancel", [id |-> id], NoId, NoId)
    /\ UNCHANGED <<toastsCounter, subscribers, toasts, history, mounted, toaster, state,
                   nextState, promises, now>>

\* a click on the action button:
\* else if (dataset.action && isAction(toast.action))
\*     { toast.action.onClick?.(event); if (!event.defaultPrevented) this.#deleteToast() }
ClickAction(id, defaultPrevented) ==
    /\ id \in DOMAIN components
    /\ Has(components[id].toast, "action")
    /\ Len(timers) < MaxTimers
    /\ LET c == components[id] IN
        /\ IF defaultPrevented THEN UNCHANGED <<components, heights, timers>>
           ELSE /\ deleteToast(id, c)
                /\ timers' = Append(timers, RemoveToast(c.toast))
        /\ trace' = <<[kind |-> "action.onClick", id |-> id]>>
    /\ call' = Called("action", [id |-> id, defaultPrevented |-> defaultPrevented], NoId, NoId)
    /\ UNCHANGED <<toastsCounter, subscribers, toasts, history, mounted, toaster, state,
                   nextState, promises, now>>

\* the position of the Toaster: position = "bottom-right" unless a prop sets it
position == "bottom-right"
Top == {"top-left", "top-center", "top-right"}

Abs(n) == IF n < 0 THEN -n ELSE n
Min(a, b) == IF a <= b THEN a ELSE b

\* position.startsWith("top") ? Math.min(0, yPosition) : Math.max(0, yPosition)
SwipeAmount(yPosition) ==
    IF position \in Top THEN Min(0, yPosition) ELSE Max(0, yPosition)

\* Math.abs(swipeAmount) >= SWIPE_THRESHOLD || velocity > 0.11, where velocity
\* is Math.abs(swipeAmount) / timeTaken: Infinity when only timeTaken is 0, NaN
\* when both are
Commits(swipeAmount, timeTaken) ==
    \/ Abs(swipeAmount) >= SWIPE_THRESHOLD
    \/ 100 * Abs(swipeAmount) > 11 * timeTaken

\* Toast.handleEvent on a pointerdown at clientY y, on a button of the toast or
\* on the rest of it:
\* if (this.#disabled || !this.#dismissible) return
\* this.#dragStartTime = Date.now(); this.#offsetBeforeRemove = this.#updateOffset()
\* if (event.target instanceof HTMLButtonElement) this.#pointerStart = event
PointerDown(id, target, y) ==
    /\ id \in DOMAIN components
    /\ components[id].gesture = <<>>
    /\ LET c == components[id] IN
        components' = [components EXCEPT ![id] =
            IF c.disabled \/ ~c.dismissible
            THEN [c EXCEPT !.gesture = <<y, y>>]
            ELSE [c EXCEPT
                    !.dragStartTime = <<now>>,
                    !.offsetBeforeRemove = <<updateOffset(c, heights)>>,
                    !.pointerStart = IF target = "button" THEN <<y>> ELSE @,
                    !.gesture = <<y, y>>]]
    /\ call' = Called("pointerdown", [id |-> id, target |-> target, y |-> y], NoId, NoId)
    /\ trace' = <<>>
    /\ UNCHANGED <<toastsCounter, subscribers, toasts, history, mounted, toaster, state,
                   nextState, heights, timers, promises, now>>

\* Toast.handleEvent on a pointermove to clientY y, some text selected or not:
\* if (this.#pointerStart && this.#dismissible) { ...; if (isHighlighted) return;
\*     li.style.setProperty("--swipe-amount", `${swipeAmount}px`) }
PointerMove(id, y, isHighlighted) ==
    /\ id \in DOMAIN components
    /\ components[id].gesture # <<>>
    /\ LET c == components[id] IN
        components' = [components EXCEPT ![id] =
            [c EXCEPT
                !.gesture = <<@[1], y>>,
                !.swipeAmount =
                    IF c.pointerStart # <<>> /\ c.dismissible /\ ~isHighlighted
                    THEN SwipeAmount(y - c.pointerStart[1])
                    ELSE @]]
    /\ call' = Called("pointermove",
                      [id |-> id, y |-> y, isHighlighted |-> isHighlighted], NoId, NoId)
    /\ trace' = <<>>
    /\ UNCHANGED <<toastsCounter, subscribers, toasts, history, mounted, toaster, state,
                   nextState, heights, timers, promises, now>>

\* Toast.handleEvent on the pointerup that ends the gesture:
\* if (this.#swipedOut === false && this.#dismissible) {
\*     this.#pointerStart = undefined
\*     timeTaken = Date.now() - (this.#dragStartTime ?? 0)
\*     if (...) { this.#offsetBeforeRemove = this.#updateOffset();
\*                toast.onDismiss?.(toast); this.#deleteToast();
\*                this.#swipedOut = true; return }
\*     li.style.setProperty("--swipe-amount", "0px") }
PointerUp(id) ==
    /\ id \in DOMAIN components
    /\ components[id].gesture # <<>>
    /\ Len(timers) < MaxTimers
    /\ LET c == components[id]
           timeTaken == now - (IF c.dragStartTime = <<>> THEN 0 ELSE c.dragStartTime[1])
           up == [c EXCEPT !.gesture = <<>>]
       IN  IF ~c.swipedOut /\ c.dismissible
           THEN IF Commits(c.swipeAmount, timeTaken)
                THEN /\ deleteToast(id,
                            [up EXCEPT
                                !.pointerStart = <<>>,
                                !.offsetBeforeRemove = <<updateOffset(c, heights)>>,
                                !.onDismiss = @ + Len(Calls(c.toast, "onDismiss")),
                                !.swipedOut = TRUE])
                     /\ timers' = Append(timers, RemoveToast(c.toast))
                     /\ trace' = Calls(c.toast, "onDismiss")
                ELSE /\ components' = [components EXCEPT ![id] =
                            [up EXCEPT !.pointerStart = <<>>, !.swipeAmount = 0]]
                     /\ trace' = <<>>
                     /\ UNCHANGED <<heights, timers>>
           ELSE /\ components' = [components EXCEPT ![id] = up]
                /\ trace' = <<>>
                /\ UNCHANGED <<heights, timers>>
    /\ call' = Called("pointerup", [id |-> id], NoId, NoId)
    /\ UNCHANGED <<toastsCounter, subscribers, toasts, history, mounted, toaster, state,
                   nextState, promises, now>>

\* Toast.handleEvent on an ExpandEvent, an InteractEvent or a visibilitychange:
\* the timer is paused when the source becomes active and started when it clears
Signal(id, source, active) ==
    /\ id \in DOMAIN components
    /\ LET c == components[id] IN
        /\ components' = [components EXCEPT ![id] =
                IF active THEN pauseAutocloseTimer(c) ELSE startAutocloseTimer(c)]
        /\ timers' = IF active THEN PausedTimers(c) ELSE timers \o StartedTimers(c)
    /\ call' = Called(source, [id |-> id, active |-> active], NoId, NoId)
    /\ trace' = <<>>
    /\ UNCHANGED <<toastsCounter, subscribers, toasts, history, mounted, toaster, state,
                   nextState, heights, promises, now>>

\* the timers that #startAutocloseTimer sets in the Toasts of a list of
\* records, in the order of the elements
RECURSIVE StartedAll(_)
StartedAll(list) ==
    IF list = <<>> THEN <<>>
    ELSE (IF Head(list).id \in DOMAIN components
          THEN StartedTimers(components[Head(list).id]) ELSE <<>>)
         \o StartedAll(Tail(list))

\* for (const li of ol.children) li.dispatchEvent(new ExpandEvent(active)), or
\* new InteractEvent(active), or the visibilitychange of the document that
\* every Toast listens to: each mounted Toast pauses or starts its timer
Dispatch(active) ==
    /\ components' =
            [id \in DOMAIN components |->
                IF active THEN pauseAutocloseTimer(components[id])
                ELSE startAutocloseTimer(components[id])]
    /\ timers' =
            IF active
            THEN SelectSeq(timers, LAMBDA t :
                    ~(/\ t.kind = "autoclose" /\ ~t.unmounted
                      /\ t.id \in DOMAIN components
                      /\ Pauses(components[t.id])))
            ELSE timers \o StartedAll(state)

\* Toaster.handleEvent on a mouseenter or a mousemove over the list:
\* if (this.#expanded === false) this.#expand(true)
MouseEnter ==
    /\ mounted
    /\ IF toaster.expanded THEN UNCHANGED <<toaster, components, timers>>
       ELSE /\ toaster' = [toaster EXCEPT !.expanded = TRUE]
            /\ Dispatch(TRUE)
    /\ call' = Called("mouseenter", NoData, NoId, NoId)
    /\ trace' = <<>>
    /\ UNCHANGED <<toastsCounter, subscribers, toasts, history, mounted, state,
                   nextState, heights, promises, now>>

\* Toaster.handleEvent on a mouseleave:
\* if (this.#interacting === false && this.#expanded) this.#expand(false)
MouseLeave ==
    /\ mounted
    /\ IF ~toaster.interacting /\ toaster.expanded
       THEN /\ toaster' = [toaster EXCEPT !.expanded = FALSE]
            /\ Dispatch(FALSE)
       ELSE UNCHANGED <<toaster, components, timers>>
    /\ call' = Called("mouseleave", NoData, NoId, NoId)
    /\ trace' = <<>>
    /\ UNCHANGED <<toastsCounter, subscribers, toasts, history, mounted, state,
                   nextState, heights, promises, now>>

\* Toaster.handleEvent on a pointerdown in the list, or on the pointerup:
\* this.#interacting = down; each li gets an InteractEvent(down)
ToasterPointer(down) ==
    /\ mounted
    /\ toaster' = [toaster EXCEPT !.interacting = down]
    /\ Dispatch(down)
    /\ call' = Called(IF down THEN "pointerdown" ELSE "pointerup", NoData, NoId, NoId)
    /\ trace' = <<>>
    /\ UNCHANGED <<toastsCounter, subscribers, toasts, history, mounted, state,
                   nextState, heights, promises, now>>

\* Toaster.handleEvent on a keydown: the hotkey expands the list, Escape
\* collapses it when the focus is in the list
KeyDown(key, focusWithin) ==
    /\ mounted
    /\ IF key = "hotkey"
       THEN /\ toaster' = [toaster EXCEPT !.expanded = TRUE]
            /\ Dispatch(TRUE)
       ELSE IF key = "Escape" /\ focusWithin
       THEN /\ toaster' = [toaster EXCEPT !.expanded = FALSE]
            /\ Dispatch(FALSE)
       ELSE UNCHANGED <<toaster, components, timers>>
    /\ call' = Called("keydown", [key |-> key, focusWithin |-> focusWithin], NoId, NoId)
    /\ trace' = <<>>
    /\ UNCHANGED <<toastsCounter, subscribers, toasts, history, mounted, state,
                   nextState, heights, promises, now>>

\* the document becomes hidden or visible, pauseWhenPageIsHidden set:
\* Toast.handleEvent on the visibilitychange, in every mounted Toast
VisibilityChange(hidden) ==
    /\ mounted
    /\ toaster.hidden # hidden
    /\ toaster' = [toaster EXCEPT !.hidden = hidden]
    /\ Dispatch(hidden)
    /\ call' = Called("visibilitychange", [hidden |-> hidden], NoId, NoId)
    /\ trace' = <<>>
    /\ UNCHANGED <<toastsCounter, subscribers, toasts, history, mounted, state,
                   nextState, heights, promises, now>>

\* time passes
Tick(ms) ==
    /\ now + ms <= StartTime + MaxTime
    /\ now' = now + ms
    /\ call' = Called("tick", [ms |-> ms], NoId, NoId)
    /\ trace' = <<>>
    /\ UNCHANGED <<toastsCounter, subscribers, toasts, history, mounted, toaster, state,
                   nextState, components, heights, timers, promises>>

\* the autoclose timer of a mounted Toast fires: Toast.#autoclose,
\* toast.onAutoClose?.(toast); t.#deleteToast()
AutocloseFires(i) ==
    /\ timers[i].kind = "autoclose"
    /\ ~timers[i].unmounted
    /\ timers[i].id \in DOMAIN components
    /\ LET c == components[timers[i].id] IN
        /\ deleteToast(timers[i].id,
                       [c EXCEPT !.onAutoClose = @ + Len(Calls(c.toast, "onAutoClose"))])
        \* setTimeout(removeToast, TIME_BEFORE_UNMOUNT, toast)
        /\ timers' = Append(Without(timers, i), RemoveToast(c.toast))
        /\ trace' = Calls(c.toast, "onAutoClose")
    /\ call' = Called("autoclose", [id |-> timers[i].id], NoId, NoId)
    /\ UNCHANGED <<toastsCounter, subscribers, toasts, history, mounted, toaster, state,
                   nextState, promises, now>>

\* the autoclose timer of a Toast that has been unmounted fires: #deleteToast
\* throws on the missing element, after onAutoClose
LateAutocloseFires(i) ==
    /\ timers[i].kind = "autoclose"
    /\ timers[i].unmounted
    /\ timers' = Without(timers, i)
    /\ call' = Called("autoclose", [id |-> timers[i].id], NoId, NoId)
    /\ trace' = Calls(timers[i].props, "onAutoClose") \o <<[kind |-> "throw"]>>
    /\ UNCHANGED <<toastsCounter, subscribers, toasts, history, mounted, toaster, state,
                   nextState, components, heights, promises, now>>

\* Toaster.#removeToast, TIME_BEFORE_UNMOUNT after #deleteToast
removeToastIn(w, toastToRemove) ==
    LET marked == \E i \in 1..Len(state) :
                    /\ state[i].id = toastToRemove.id
                    /\ \A j \in 1..(i - 1) : state[j].id # toastToRemove.id
                    /\ Has(state[i], "delete")
        told   == IF marked THEN w ELSE dismissIn(w, toastToRemove.id)
    IN  [told EXCEPT !.next =
            setState(SelectSeq(state, LAMBDA t : t.id # toastToRemove.id))]

RemoveToastFires(i) ==
    /\ timers[i].kind = "removeToast"
    /\ timers' = Without(timers, i)
    /\ LET w == removeToastIn(World, timers[i].toast) IN
        /\ subscribers' = Compact(w.subs)
        /\ nextState' = w.next
        /\ trace' = w.trace
    /\ call' = Called("removeToast", [id |-> timers[i].toast.id], NoId, NoId)
    /\ UNCHANGED <<toastsCounter, toasts, history, mounted, toaster, state, components,
                   heights, promises, now>>

----------------------------------------------------------------------------
(* The arguments the callers pass.  The program's state space under every  *)
(* argument at once is too large to enumerate, so each specification below *)
(* drives the same operations with the arguments its properties are about. *)

IdArgs == {Num(0), Num(1), Str(0), Str(1)}
Messages == {"A"}
Types == {"loading", "success"}

\* options that carry at most an identifier
IdOnly == Optional("id", IdArgs)

\* CreateToastData with an identifier the store may hold already
MergeIds == {Num(1), Str(1)}

MergeData ==
    {Spread(Spread(Spread(a, b), c), d) :
        a \in Optional("id", MergeIds), b \in Optional("dismissible", BOOLEAN),
        c \in Optional("message", Messages), d \in Optional("type", Types)}

Init ==
    /\ toastsCounter = 1
    /\ subscribers = <<>>
    /\ toasts = <<>>
    /\ call = [op |-> "none", arg |-> NoData, subs |-> <<>>, id |-> NoId, existed |-> FALSE, ret |-> NoId]
    /\ trace = <<>>
    /\ history = [alias |-> FALSE, length |-> 0]
    /\ mounted = FALSE
    /\ toaster = [expanded |-> FALSE, interacting |-> FALSE, hidden |-> FALSE]
    /\ state = <<>>
    /\ nextState = [pending |-> FALSE, toasts |-> <<>>]
    /\ components = NoData
    /\ heights = <<>>
    /\ timers = <<>>
    /\ promises = <<>>
    /\ now = StartTime

\* The public interface, called with identifiers of every kind.
Next ==
    \/ subscribe("observer")
    \/ unsubscribe("observer")
    \/ \E data \in IdOnly : create(data)
    \/ \E m \in Messages, data \in IdOnly : show(m, data)
    \/ \E name \in Constructors, m \in Messages, data \in IdOnly :
            constructor(name, m, data)
    \/ \E data \in IdOnly : custom(data)
    \/ \E id \in IdArgs \cup {NoId, Num(2)} : dismiss(id)
    \/ GetHistory
    \/ MutateHistory

Spec == Init /\ [][Next]_vars

\* create and show called with every combination of options.
MergeNext ==
    \/ subscribe("observer")
    \/ \E data \in MergeData : create(data)
    \/ \E m \in Messages, data \in Optional("id", MergeIds) : show(m, data)

MergeSpec == Init /\ [][MergeNext]_vars

\* Callbacks that subscribe and unsubscribe while an event is delivered.
PubSubNext ==
    \/ \E fn \in Callbacks : subscribe(fn)
    \/ \E fn \in Callbacks : unsubscribe(fn)
    \/ \E data \in Optional("id", {Num(0), Str(1)}) : create(data)
    \/ \E id \in {Num(0), Num(1), Str(1), NoId} : dismiss(id)

PubSubSpec == Init /\ [][PubSubNext]_vars

\* The promise adapter, over a store in which show may have left records.
PromiseData ==
    {Spread(Spread(Spread(a, b), c), d) :
        a \in Optional("loading", {"L"}), b \in Optional("success", {"S", "throws"}),
        c \in Optional("error", {"E", "throws"}), d \in Optional("finally", {"runs", "throws"})}

Outcomes ==
    {<<"resolve", "value">>, <<"resolve", "httpError">>, <<"resolve", "element">>,
     <<"reject", "error">>}

PromiseNext ==
    \/ subscribe("observer")
    \/ show("A", [id |-> Num(1)])
    \/ \E data \in PromiseData, outcome \in Outcomes : promise(data, outcome)
    \/ \E k \in 1..Len(promises) : PromiseThen(k)
    \/ \E k \in 1..Len(promises) : PromiseCatch(k)
    \/ \E k \in 1..Len(promises) : PromiseFinally(k)

PromiseSpec == Init /\ [][PromiseNext]_vars

\* The height tracker on its own.
HeightIds == {Num(1), Num(2), Num(3)}
HeightValues == {20, 30, 40}

HeightsNext ==
    \/ \E id \in HeightIds, height \in HeightValues : HeightsAddCall(id, height)
    \/ \E id \in HeightIds : HeightsRemoveCall(id)

HeightsSpec == Init /\ [][HeightsNext]_vars

\* One Toast with a lifetime of a second, its timer paused and resumed while
\* time passes.  A timer fires once it is due, and it may fire late.
PauseSources == {"expand", "interact", "visibilitychange"}
TimerDurations == {0, 1000}

TimerNext ==
    \/ ToasterMount
    \/ \E duration \in TimerDurations : create([id |-> Num(1), duration |-> duration])
    \/ Render
    \/ \E active \in BOOLEAN : Signal(Num(1), "expand", active)
    \/ \E ms \in {300, 700} : Tick(ms)
    \/ \E i \in 1..Len(timers) : Due(i) /\ AutocloseFires(i)
    \/ \E i \in 1..Len(timers) : Due(i) /\ LateAutocloseFires(i)
    \/ \E i \in 1..Len(timers) : Due(i) /\ RemoveToastFires(i)

TimerSpec == Init /\ [][TimerNext]_vars

\* One toast that stays until it is dismissed, and a pointer that goes down on
\* it at clientY 100, moves and goes up while time passes.
PointerDownY == 100
PointerTargets == {"button", "body"}
PointerMoves == {90, 110, 115, 120}
SwipeTicks == {136, 137, 363}

SwipeNext ==
    \/ ToasterMount
    \/ create([id |-> Num(1), duration |-> Infinity, onDismiss |-> TRUE])
    \/ Render
    \/ \E target \in PointerTargets : PointerDown(Num(1), target, PointerDownY)
    \/ \E y \in PointerMoves, isHighlighted \in BOOLEAN :
            PointerMove(Num(1), y, isHighlighted)
    \/ PointerUp(Num(1))
    \/ \E ms \in SwipeTicks : now + ms <= StartTime + MaxSwipeTime /\ Tick(ms)
    \/ \E i \in 1..Len(timers) : Due(i) /\ RemoveToastFires(i)

SwipeSpec == Init /\ [][SwipeNext]_vars

\* One toast with both callbacks, a cancel and an action button, under a
\* Toaster that renders close buttons; the user clicks while the timers run.
ButtonData ==
    [id |-> Num(1), duration |-> 1000, onDismiss |-> TRUE, onAutoClose |-> TRUE,
     cancel |-> [label |-> "Undo"], action |-> [label |-> "Retry"]]
ButtonTicks == {200, 1000}

ButtonNext ==
    \/ ToasterMount
    \/ create(ButtonData)
    \/ Render
    \/ ClickClose(Num(1))
    \/ ClickCancel(Num(1))
    \/ \E defaultPrevented \in BOOLEAN : ClickAction(Num(1), defaultPrevented)
    \/ \E ms \in ButtonTicks : Tick(ms)
    \/ \E i \in 1..Len(timers) : Due(i) /\ AutocloseFires(i)
    \/ \E i \in 1..Len(timers) : Due(i) /\ LateAutocloseFires(i)
    \/ \E i \in 1..Len(timers) : Due(i) /\ RemoveToastFires(i)

ButtonSpec == Init /\ [][ButtonNext]_vars

\* One toast with a lifetime of a second under a Toaster that the pointer
\* enters, leaves and presses, that the keyboard expands and collapses, and
\* whose page is hidden and shown, pauseWhenPageIsHidden set.
PauseKeys == {"hotkey", "Escape"}
PauseTicks == {300, 700}

PauseNext ==
    \/ ToasterMount
    \/ create([id |-> Num(1), duration |-> 1000])
    \/ Render
    \/ MouseEnter
    \/ MouseLeave
    \/ \E down \in BOOLEAN : ToasterPointer(down)
    \/ \E key \in PauseKeys, focusWithin \in BOOLEAN : KeyDown(key, focusWithin)
    \/ \E hidden \in BOOLEAN : VisibilityChange(hidden)
    \/ \E ms \in PauseTicks : Tick(ms)
    \/ \E i \in 1..Len(timers) : Due(i) /\ AutocloseFires(i)
    \/ \E i \in 1..Len(timers) : Due(i) /\ LateAutocloseFires(i)
    \/ \E i \in 1..Len(timers) : Due(i) /\ RemoveToastFires(i)

PauseSpec == Init /\ [][PauseNext]_vars

\* One toast that is shown as loading and updated in place to a success with
\* a lifetime of a second, as promise() does, or shown as that success at
\* once; no user acts, the event loop runs the renders and the timers, and
\* time passes.
UpdateData ==
    {[id |-> Num(1), type |-> "loading"],
     [id |-> Num(1), type |-> "success", duration |-> 1000]}
UpdateTicks == {200, 1000}

UpdateNext ==
    \/ ToasterMount
    \/ \E data \in UpdateData : create(data)
    \/ Render
    \/ \E ms \in UpdateTicks : Tick(ms)
    \/ \E i \in 1..Len(timers) : Due(i) /\ AutocloseFires(i)
    \/ \E i \in 1..Len(timers) : Due(i) /\ RemoveToastFires(i)

UpdateLoop ==
    /\ WF_vars(Render)
    /\ WF_vars(\E ms \in UpdateTicks : Tick(ms))
    /\ WF_vars(\E i \in 1..Len(timers) : Due(i) /\ AutocloseFires(i))
    /\ WF_vars(\E i \in 1..Len(timers) : Due(i) /\ RemoveToastFires(i))

UpdateSpec == Init /\ [][UpdateNext]_vars /\ UpdateLoop

\* One toast that componentDidMount leaves without a timer, loading or of
\* infinite duration, and the events that pause and start timers.
StickyData == {[id |-> Num(1), type |-> "loading"], [id |-> Num(1), duration |-> Infinity]}
StickyTicks == {200}

StickyNext ==
    \/ ToasterMount
    \/ \E data \in StickyData : create(data)
    \/ Render
    \/ \E source \in PauseSources, active \in BOOLEAN :
            Len(timers) < MaxTimers /\ Signal(Num(1), source, active)
    \/ \E ms \in StickyTicks : now + ms <= StartTime + MaxStickyTime /\ Tick(ms)
    \/ \E i \in 1..Len(timers) : Due(i) /\ AutocloseFires(i)
    \/ \E i \in 1..Len(timers) : Due(i) /\ LateAutocloseFires(i)
    \/ \E i \in 1..Len(timers) : Due(i) /\ RemoveToastFires(i)

StickySpec == Init /\ [][StickyNext]_vars

\* A mounted Toaster mirrors the store; the event loop runs the renders and
\* the timers, and the user may click a close button.
ToasterData == {NoData, [type |-> "loading"], [duration |-> Infinity], [id |-> Num(1)]}

ToasterNext ==
    \/ ToasterMount
    \/ \E data \in ToasterData : create(data)
    \/ \E id \in {Num(1), Num(2), NoId} : dismiss(id)
    \/ \E id \in {Num(1), Num(2)} : ClickClose(id)
    \/ Render
    \/ \E i \in 1..Len(timers) : AutocloseFires(i)
    \/ \E i \in 1..Len(timers) : LateAutocloseFires(i)
    \/ \E i \in 1..Len(timers) : RemoveToastFires(i)

\* The event loop runs a queued render and a due timer; nothing makes a
\* caller or the user act.
EventLoop ==
    /\ WF_vars(Render)
    /\ WF_vars(\E i \in 1..Len(timers) : AutocloseFires(i))
    /\ WF_vars(\E i \in 1..Len(timers) : LateAutocloseFires(i))
    /\ WF_vars(\E i \in 1..Len(timers) : RemoveToastFires(i))

ToasterSpec == Init /\ [][ToasterNext]_vars /\ EventLoop

----------------------------------------------------------------------------
(* Properties of the store *)

Unique(list) == \A i, j \in 1..Len(list) : list[i].id = list[j].id => i = j

Ids(list) == {list[i].id : i \in 1..Len(list)}

\* the operations that go through create
CreateOps == {"create", "custom"} \cup Constructors

\* the callbacks the last call ran, in order
Receivers == [k \in 1..(Len(trace) - 1) |-> trace[k].to]

Before(list, a, b) ==
    \E i, j \in 1..Len(list) : i < j /\ list[i] = a /\ list[j] = b

\* C1: a create on a store with one record per identifier leaves one record
\* per identifier: when a stored record has the resolved identifier the store
\* keeps its length and every record keeps its identifier, and otherwise
\* exactly one record, with the resolved identifier, is appended.
C1_CreateKeepsOnePerId ==
    [][(call'.op \in CreateOps /\ Unique(toasts)) =>
            /\ Unique(toasts')
            /\ call'.existed =>
                    /\ Len(toasts') = Len(toasts)
                    /\ \A i \in 1..Len(toasts) : toasts'[i].id = toasts[i].id
            /\ ~call'.existed =>
                    /\ Len(toasts') = Len(toasts) + 1
                    /\ toasts'[Len(toasts')].id = call'.id
                    /\ SubSeq(toasts', 1, Len(toasts)) = toasts]_vars

\* C1 witness: a create has just updated one of two stored records in place
C1_Witness ==
    /\ call.op = "create"
    /\ call.existed
    /\ Len(toasts) = 2
    /\ Unique(toasts)

\* C2: after any calls of show, create, the constructors and custom, no two
\* stored records share an identifier.
C2_NoTwoRecordsShareAnId == Unique(toasts)

\* C3: dismiss(id), for an identifier create accepts, delivers to each
\* subscriber exactly one DismissSignal, carrying id, delivers nothing else,
\* and returns id.
C3_DismissSignalsItsIdOnly ==
    (call.op = "dismiss" /\ IsValidId(call.arg.id)) =>
        /\ call.ret = call.arg.id
        /\ \A k \in 1..(Len(trace) - 1) : trace[k].ev = DismissSignal(call.arg.id)
        /\ \A i \in 1..Len(call.subs) :
                Cardinality({k \in 1..(Len(trace) - 1) : trace[k].to = call.subs[i]}) = 1

\* whether the caller left the property out, the title being what the caller
\* passes as message
LeftOut(key, data) ==
    IF key = "title" THEN ~Has(data, "message") ELSE ~Has(data, key)

\* C4: once dismiss(id) has been called for an identifier in the rendered set
\* of the Toaster, the rendered record is marked and then, with no user input,
\* leaves the rendered set.
C4_DismissedIsPurged ==
    \A id \in {Num(1), Num(2)} :
        (call.op = "dismiss" /\ call.id = id /\ id \in IdsOf(state))
            ~> (id \notin IdsOf(state))

\* C5, as claimed: when create matches a stored record, every property the
\* caller left out, the title included, keeps its value; only the identifier
\* and dismissible are set again.
C5_LeftOutPropertiesKeepValue ==
    [][(call'.op = "create" /\ call'.existed) =>
            \A i \in 1..Len(toasts) : toasts[i].id = call'.id =>
                \A key \in (DOMAIN toasts[i]) \ {"id", "dismissible"} :
                    LeftOut(key, call'.arg) =>
                        /\ Has(toasts'[i], key)
                        /\ toasts'[i][key] = toasts[i][key]]_vars

\* C5, amended: when create matches a stored record, every property the
\* caller left out keeps its value except the title; the properties the
\* caller passed take the caller's values; the identifier is the resolved one,
\* dismissible is the caller's or true, and the title is the caller's message,
\* undefined when there is none.  The other records are left alone.
C5_MergeKeepsAllButTitle ==
    [][(call'.op = "create" /\ call'.existed) =>
            \A i \in 1..Len(toasts) :
                IF toasts[i].id = call'.id
                THEN LET old == toasts[i]
                         new == toasts'[i]
                         data == call'.arg
                     IN  /\ DOMAIN new =
                                (DOMAIN old) \cup (DOMAIN data) \cup {"id", "dismissible", "title"}
                         /\ \A key \in (DOMAIN old) \ ((DOMAIN data) \cup {"id", "dismissible", "title"}) :
                                new[key] = old[key]
                         /\ \A key \in (DOMAIN data) \ {"id", "dismissible", "title"} :
                                new[key] = data[key]
                         /\ new.id = call'.id
                         /\ new.dismissible = IF Has(data, "dismissible") THEN data.dismissible ELSE TRUE
                         /\ new.title = IF Has(data, "message") THEN data.message ELSE undefined
                ELSE toasts'[i] = toasts[i]]_vars

\* C5 witness: a create without a message has updated a record: its title is
\* undefined and the type it had, which the caller left out, is still there
C5_Witness ==
    /\ call.op = "create"
    /\ call.existed
    /\ ~Has(call.arg, "message")
    /\ ~Has(call.arg, "type")
    /\ \E i \in 1..Len(toasts) :
            /\ toasts[i].id = call.id
            /\ toasts[i].title = undefined
            /\ Has(toasts[i], "type")

\* C6: on every create the record each subscriber was given is the record
\* the store holds after the call.
C6_PublishedIsStored ==
    call.op = "create" =>
        \A k \in 1..(Len(trace) - 1) :
            \E i \in 1..Len(toasts) : toasts[i] = trace[k].ev

\* C7, as claimed: create returns before any subscriber callback of that
\* call has run.
C7_ReturnsBeforeSubscribersRun ==
    call.op = "create" =>
        \A k \in 1..Len(trace) :
            trace[k].kind = "deliver" => \E j \in 1..(k - 1) : trace[j].kind = "return"

\* C7, amended: create returns the resolved identifier once every subscriber
\* callback of that call has run: the return is the last thing the call does,
\* and each subscriber was called before it.
C7_ReturnsAfterSubscribersRan ==
    call.op = "create" =>
        /\ Len(trace) >= 1
        /\ trace[Len(trace)] = [kind |-> "return", value |-> call.id]
        /\ call.ret = call.id
        /\ \A k \in 1..(Len(trace) - 1) : trace[k].kind = "deliver"
        /\ \A i \in 1..Len(call.subs) :
                \E k \in 1..(Len(trace) - 1) : trace[k].to = call.subs[i]

\* C7 witness: a create has called a subscriber and returned
C7_Witness ==
    /\ call.op = "create"
    /\ call.subs # <<>>
    /\ Len(trace) >= 2
    /\ trace[1].kind = "deliver"

\* the calls that publish one event, once
PublishesOnce ==
    \/ call.op = "dismiss" /\ Truthy(call.arg.id)
    \/ call.op = "create" /\ ~call.existed

C9_HistoryOnlyGrows ==
    [][/\ Len(getHistory.list') >= Len(getHistory.list)
       /\ Ids(getHistory.list) \subseteq Ids(getHistory.list')
       /\ call'.op = "mutateHistory" => toasts' = toasts]_vars

\* C9 witness: the caller has shortened the array it was given, after a
\* dismiss, and the store still holds its two records
C9_Witness ==
    /\ call.op = "mutateHistory"
    /\ Len(toasts) = 2
    /\ history.length = 1


\* a promise() call that ran to its end under the eyes of the observer
Finished(p) == p.phase = "done" /\ p.watched

IsRecordOfType(ev, type) ==
    ~Has(ev, "dismiss") /\ Has(ev, "type") /\ ev.type = type

\* C10: of promise(op, {loading, success}) with op resolving to an ordinary
\* value the subscribers see a loading record, then a success record with
\* the same identifier, and nothing else; of promise(op, {loading}) with op
\* rejecting and no error option they see the loading record, then the
\* DismissSignal of its identifier, and nothing else.
C10_PromiseEvents ==
    \A k \in 1..Len(promises) :
        LET p == promises[k] IN
        Finished(p) /\ Has(p.data, "loading") =>
            /\ ( /\ p.outcome = <<"resolve", "value">>
                 /\ Has(p.data, "success")
                 /\ p.data.success # "throws" )
               => /\ Len(p.observed) = 2
                  /\ IsRecordOfType(p.observed[1], "loading")
                  /\ IsRecordOfType(p.observed[2], "success")
                  /\ p.observed[2].id = p.observed[1].id
            /\ ( /\ p.outcome[1] = "reject"
                 /\ ~Has(p.data, "error") )
               => /\ Len(p.observed) = 2
                  /\ IsRecordOfType(p.observed[1], "loading")
                  /\ p.observed[2] = DismissSignal(p.observed[1].id)


Count(log, what) == Cardinality({i \in 1..Len(log) : log[i] = what})

\* C11: when a promise() call that created a loading record has finished,
\* either a replacement was created for its identifier or dismiss was called
\* for it, whatever the operation did and whichever callback threw.
C11_LoadingReplacedOrDismissed ==
    \A k \in 1..Len(promises) :
        LET p == promises[k] IN
        p.phase = "done" /\ Has(p.data, "loading") =>
            Count(p.log, "create") >= 2 \/ Count(p.log, "dismiss") >= 1

\* C12: data.finally runs once for every outcome, not before the adapter's
\* finally handler and after every create and dismiss of the adapter.
C12_FinallyRunsOnceAndLast ==
    \A k \in 1..Len(promises) :
        LET p == promises[k] IN
        Has(p.data, "finally") =>
            IF p.phase = "done"
            THEN Count(p.log, "finally") = 1 /\ p.log[Len(p.log)] = "finally"
            ELSE Count(p.log, "finally") = 0

\* C12 witness: an adapter whose operation was rejected created the loading
\* record, dismissed it and then ran data.finally
C12_Witness ==
    \E k \in 1..Len(promises) :
        /\ promises[k].phase = "done"
        /\ promises[k].log = <<"create", "dismiss", "finally">>

\* C13: unwrap resolves with the value the operation resolved with and
\* rejects with the error it was rejected with, whichever options are set
\* and whichever callback threw.
C13_UnwrapGivesTheOutcome ==
    \A k \in 1..Len(promises) :
        LET p == promises[k] IN
        p.phase = "done" =>
            unwrap(p) = IF p.outcome[1] = "resolve" THEN <<"resolve", p.outcome[2]>>
                        ELSE <<"reject", "operation">>


\* the sum of height + gap over the entries of a list
RECURSIVE Total(_, _)
Total(list, gap) ==
    IF list = <<>> THEN 0 ELSE list[Len(list)].height + gap + Total(SubSeq(list, 1, Len(list) - 1), gap)

Present(list, id) == \E i \in 1..Len(list) : list[i].toastId = id

\* the entries strictly in front of the (first) entry of id
InFront(list, id) ==
    SubSeq(list, 1, (CHOOSE i \in 1..Len(list) :
                        /\ list[i].toastId = id
                        /\ \A j \in 1..(i - 1) : list[j].toastId # id) - 1)

Entry(id, height) == [toastId |-> id, height |-> height]

\* C14: in every tracker state that add and remove reach, offset(id, gap) of
\* an identifier with an entry is the sum of height + gap over the entries in
\* front of it; add puts the entry at the front and remove(id) drops every
\* entry of id and no other.  Entries 40, 30, 20 with gap 10 give 0, 50, 90.
C14_OffsetIsSumInFront ==
    [][/\ \A id \in HeightIds, gap \in {10, GAP} :
            Present(heights', id) =>
                HeightsOffset(heights', id, gap) = Total(InFront(heights', id), gap)
       /\ heights' = <<Entry(Num(1), 40), Entry(Num(2), 30), Entry(Num(3), 20)>> =>
            /\ HeightsOffset(heights', Num(1), 10) = 0
            /\ HeightsOffset(heights', Num(2), 10) = 50
            /\ HeightsOffset(heights', Num(3), 10) = 90
       /\ call'.op = "heights.add" =>
            /\ heights'[1] = Entry(call'.arg.id, call'.arg.height)
            /\ Tail(heights') = heights
       /\ call'.op = "heights.remove" =>
            /\ ~Present(heights', call'.arg.id)
            /\ heights' = SelectSeq(heights, LAMBDA h : h.toastId # call'.arg.id)]_vars

\* C14 witness: remove(a) on the entries a=40, b=30, c=20 has left b at the
\* front with offset 0
C14_Witness ==
    /\ call.op = "heights.remove"
    /\ call.arg.id = Num(1)
    /\ heights = <<Entry(Num(2), 30), Entry(Num(3), 20)>>
    /\ HeightsOffset(heights, Num(2), 10) = 0
    /\ HeightsOffset(heights, Num(3), 10) = 40

\* C15: offset(id, gap) is 0 for an identifier that has no entry, whatever
\* the other entries are.
C15_OffsetOfAbsentIsZero ==
    \A id \in HeightIds :
        ~Present(heights, id) => HeightsOffset(heights, id, GAP) = 0


\* the autoclose timer of the mounted Toast of id is pending
Pending(list, id) ==
    \E i \in 1..Len(list) :
        list[i].kind = "autoclose" /\ list[i].id = id /\ ~list[i].unmounted

\* C16: a pause of an armed autoclose timer, e milliseconds after it was
\* started, leaves max(0, remainingTime - e) and no pending fire; a pause of a
\* paused timer leaves remainingTime as it is; remainingTime is never negative.
C16_PauseKeepsTheRest ==
    [][\A id \in (DOMAIN components) \cap (DOMAIN components') :
        LET c == components[id]
            d == components'[id]
        IN  /\ d.remainingTime # <<>> => d.remainingTime[1] >= 0
            /\ ( /\ call'.op \in PauseSources
                 /\ call'.arg.id = id
                 /\ call'.arg.active )
               => /\ Pending(timers, id) =>
                        /\ d.remainingTime =
                             <<Max(0, c.remainingTime[1] - (now - c.closeTimerStartTime[1]))>>
                        /\ ~Pending(timers', id)
                  /\ ~c.timeoutId => d.remainingTime = c.remainingTime]_vars

\* a timer armed with 1000 and paused after 300 keeps 700
C16_PausedAt300 ==
    /\ call.op = "expand"
    /\ call.arg.active
    /\ now = StartTime + 300
    /\ Num(1) \in DOMAIN components
    /\ components[Num(1)].remainingTime = <<700>>
    /\ ~Pending(timers, Num(1))


\* the step is a user interaction that removes the toast of id: a click on its
\* close or cancel button, a click on its action button that is not prevented,
\* or a swipe that is committed
UserRemoves(id) ==
    /\ call'.op \in {"click", "cancel", "action", "pointerup"}
    /\ call'.arg.id = id
    /\ call'.op = "action" => ~call'.arg.defaultPrevented
    /\ call'.op = "pointerup" => components'[id].swipedOut /\ ~components[id].swipedOut

Kinds(log) == {log[i].kind : i \in 1..Len(log)}

\* C17: onDismiss of a notification is called exactly once when a user
\* interaction removes it (close, cancel or action button, committed swipe),
\* also when the interaction is repeated during the exit animation, and it is
\* not called when the autoclose timer removes the notification.
C17_OnDismissOncePerUserRemoval ==
    [][/\ \A id \in (DOMAIN components) \cap (DOMAIN components') :
            /\ Has(components[id].toast, "onDismiss") /\ UserRemoves(id)
                    => components'[id].onDismiss = 1
            /\ components'[id].onDismiss <= 1
       /\ call'.op = "autoclose" => "onDismiss" \notin Kinds(trace')]_vars

\* a close click calls onDismiss once
C17_CloseCallsOnce ==
    /\ call.op = "click"
    /\ Num(1) \in DOMAIN components
    /\ components[Num(1)].onDismiss = 1
    /\ trace = <<[kind |-> "onDismiss", id |-> Num(1)]>>

\* C18: onAutoClose of a notification is called at most once, only when its
\* autoclose timer fires, and never once a user interaction has removed the
\* notification.
C18_OnAutoCloseOnlyByTimer ==
    [][/\ \A id \in (DOMAIN components) \cap (DOMAIN components') :
            /\ components'[id].onAutoClose <= 1
            /\ components'[id].onAutoClose # components[id].onAutoClose
                    => /\ call'.op = "autoclose"
                       /\ ~components[id].removed
       /\ "onAutoClose" \in Kinds(trace')
            => /\ call'.op = "autoclose"
               /\ call'.arg.id \in DOMAIN components
               /\ ~components[call'.arg.id].removed]_vars

\* the timer of a toast no user has touched fires and calls onAutoClose once
C18_TimerCallsOnce ==
    /\ call.op = "autoclose"
    /\ Num(1) \in DOMAIN components
    /\ components[Num(1)].onAutoClose = 1
    /\ components[Num(1)].onDismiss = 0
    /\ trace = <<[kind |-> "onAutoClose", id |-> Num(1)]>>

\* the pointer goes up on a dismissible toast that is not loading and not yet
\* removed, at the end of a gesture
GestureEnds(id) ==
    /\ call'.op = "pointerup"
    /\ call'.arg.id = id
    /\ id \in (DOMAIN components) \cap (DOMAIN components')
    /\ components[id].dismissible
    /\ ~components[id].disabled
    /\ ~components[id].removed

\* the displacement of the gesture in the direction of the swipe, in pixels,
\* and the milliseconds since the pointer went down
Displacement(c) == Abs(SwipeAmount(c.gesture[2] - c.gesture[1]))
Elapsed(c) == now - c.dragStartTime[1]

\* C19: at the end of a swipe on a dismissible notification that is not
\* loading, the dismissal is committed if and only if the displacement is at
\* least 20 pixels or the displacement divided by the elapsed milliseconds
\* exceeds 0.11; otherwise the swipe amount is reset to 0 and the notification
\* is not removed.
C19_SwipeCommitsByThresholdOrVelocity ==
    [][\A id \in DOMAIN components :
        GestureEnds(id) =>
            LET c == components[id]
                d == components'[id]
                fast == 100 * Displacement(c) > 11 * Elapsed(c)
            IN  /\ d.removed <=> (Displacement(c) >= 20 \/ fast)
                /\ ~d.removed => d.swipeAmount = 0]_vars

\* a swipe of 20 pixels that began on a button of the toast is committed
C19_SwipeFromButtonCommits ==
    /\ call.op = "pointerup"
    /\ Num(1) \in DOMAIN components
    /\ components[Num(1)].swipedOut
    /\ components[Num(1)].swipeAmount = 20
    /\ components[Num(1)].onDismiss = 1

\* C20: a swipe of 15 pixels that ends in less than 140 ms is committed; a
\* swipe of exactly 20 pixels is committed at any velocity; a swipe of 10
\* pixels over 500 ms is not committed.
C20_SwipeExamples ==
    [][\A id \in DOMAIN components :
        GestureEnds(id) =>
            LET c == components[id]
                d == components'[id]
            IN  /\ Displacement(c) = 15 /\ Elapsed(c) < 140 => d.removed
                /\ Displacement(c) = 20 => d.removed
                /\ Displacement(c) = 10 /\ Elapsed(c) = 500 => ~d.removed]_vars

\* C21: a notification that is loading, or whose duration is infinite, never
\* has its autoclose timer armed and is never removed by auto-close, whatever
\* expand, interact and visibility events its Toast receives after the mount.
C21_StickyNeverArmed ==
    /\ \A id \in DOMAIN components :
            Sticky(components[id].toast) => ~Pending(timers, id)
    /\ call.op = "autoclose" =>
            \A i \in 1..Len(state) :
                state[i].id = call.arg.id => ~Sticky(state[i])

\* C22: once the removal of a notification has been requested, or its Toast
\* has been unmounted, its autoclose timer is no longer pending, so neither
\* the auto-close callback nor the removal runs again for it, and no timer
\* fire ends in an error.
C22_RemovalCancelsTimer ==
    /\ \A id \in DOMAIN components :
            components[id].removed => ~Pending(timers, id)
    /\ \A i \in 1..Len(timers) :
            timers[i].kind = "autoclose" => ~timers[i].unmounted
    /\ "throw" \notin Kinds(trace)

\* some source of a pause is active: the list is expanded, the pointer is
\* down in it, or the page is hidden
Paused == toaster.expanded \/ toaster.interacting \/ toaster.hidden

\* C23: while any source of a pause is active, no mounted notification has a
\* running autoclose timer; the timers run again only when every source has
\* cleared.
C23_NoTimerRunsWhilePaused ==
    Paused => \A id \in DOMAIN components : ~Pending(timers, id)

\* C24: after a removal request, every offset query of the removed
\* notification gives the offset frozen at the request, 0 included, however
\* the height tracker changes afterwards.
C24_RemovedOffsetIsFrozen ==
    \A id \in DOMAIN components :
        components[id].removed =>
            updateOffset(components[id], heights) = components[id].offsetBeforeRemove[1]

\* the removeToast calls that are scheduled for the notification of id
Removals(id) ==
    {i \in 1..Len(timers) : timers[i].kind = "removeToast" /\ timers[i].toast.id = id}

\* C25: a removal request unregisters the notification from the height
\* tracker at once and schedules removeToast once; a repeated removal trigger
\* schedules no further removeToast.
C25_RemoveToastScheduledOnce ==
    \A id \in DOMAIN components :
        /\ components[id].removed => ~Present(heights, id)
        /\ Cardinality(Removals(id)) <= 1

\* C26: every record the store publishes to a subscribed Toaster reaches the
\* rendered set, also when several are published before the Toaster renders
\* again: a new identifier is inserted at the front, a known one is replaced
\* where it is, and no record that was there is lost.
C26_PublishedRecordsAreKept ==
    [][mounted /\ call'.op = "create" =>
        LET old == nextState.toasts
            new == nextState'.toasts
        IN  /\ \A i \in 1..Len(old) : old[i].id \in Ids(new)
            /\ call'.id \in Ids(new)
            /\ call'.id \notin Ids(old) => new[1].id = call'.id /\ Tail(new) = old
            /\ call'.id \in Ids(old) =>
                    /\ Len(new) = Len(old)
                    /\ \A i \in 1..Len(old) : new[i].id = old[i].id]_vars

\* the Toast of id was mounted for a loading record, and its record has been
\* replaced by one that is not loading and has a finite duration
UpdatedInPlace(id) ==
    /\ id \in DOMAIN components
    /\ components[id].disabled
    /\ ~Sticky(components[id].toast)

\* C27: a rendered notification that is updated in place from loading to a
\* category that is not loading, with a finite duration, is eventually
\* auto-closed and leaves the rendered set, without any user interaction.
C27_UpdatedToastIsAutoClosed ==
    UpdatedInPlace(Num(1)) ~> (Num(1) \notin Ids(state))

\* a toast that is shown as a success at once is auto-closed and removed
C27_ShownAsSuccessIsRemoved ==
    /\ call.op = "render"
    /\ Num(1) \notin Ids(state)
    /\ now >= StartTime + 1000 + TIME_BEFORE_UNMOUNT

\* C28: in every mounted Toast, disabled is true exactly when the current
\* record of the notification is loading, also after the record has been
\* replaced in place by one of another category.
C28_DisabledIffLoading ==
    \A id \in DOMAIN components :
        components[id].disabled
            <=> (Has(components[id].toast, "type") /\ components[id].toast.type = "loading")

\* C29: a create, or a constructor, called without an identifier gets an
\* identifier that no stored record has, also when a caller supplied that
\* number explicitly before: it appends a record and changes none, and the
\* generated identifiers increase strictly.
C29_GeneratedIdIsFresh ==
    [][call'.op \in {"create"} \cup Constructors /\ ~Has(call'.arg, "id") =>
        /\ ~call'.existed
        /\ Len(toasts') = Len(toasts) + 1
        /\ SubSeq(toasts', 1, Len(toasts)) = toasts
        /\ toastsCounter' > toastsCounter]_vars

=============================================================================
